---- MODULE Spec2Model ----
(***************************************************************************)
(* Model of the wallet engine of fx_payment_processor: the wallet table,   *)
(* the transaction table, the FX rate holder and the WalletService         *)
(* operations (fund, withdraw, convert), as the statements they issue      *)
(* against the store.  Every repository write commits on its own           *)
(* (session.commit() inside create/update), so each write is one atomic    *)
(* step and concurrent callers interleave between the steps.               *)
(*                                                                         *)
(* Units: amounts and stored balances are in cents (Numeric scale 2).      *)
(* Rates are in units of 1/RateScale.  A Python Decimal held in a local    *)
(* variable (amount * fx_rate, wallet.balance after +=) is kept exactly,   *)
(* in "fine" units of 1/RateScale cent; the store rounds it when written.  *)
(***************************************************************************)
EXTENDS Integers, Sequences, FiniteSets, TLC

\* ---------------------------------------------------------------- bounds
\* calls started in one run
MaxCalls == 2

\* ------------------------------------------------------------- constants
RateScale == 10 ^ 5
Callers == {"c1", "c2"}
Users == {1}
\* two users side by side
TwoUsers == {1, 2}
Currencies == {"USD", "MXN"}
Amounts == {1, 100}
FundAmounts == {100}
\* amounts a direct caller of the service can pass: -1.00, 0.00, 1.00
EngineAmounts == {0 - 100, 0, 100}
Modes == {"static", "random", "api"}
\* get_transactions(user_id, limit): 0 is limit = None
Limits == {0, 1}
NoCurrency == "NULL"
NoNumber == 0 - 1

\* settings.fx_rate_usd_to_mxn = 18.70, settings.fx_rate_mxn_to_usd = 0.053
DefaultUsdToMxn == 187 * (RateScale \div 10)
DefaultMxnToUsd == 53 * (RateScale \div 1000)
\* settings.fx_rate_random_values (a sub-list of the default list): 18.50, 19.00
RandomValues == {185 * (RateScale \div 10), 19 * RateScale}
\* float(data["rates"]["MXN"]) of a successful feed answer: 18.12345, 0;
\* "error" is any failed answer (request error, bad status, missing key)
ApiAnswers == {1812345, 0, NoNumber}
\* the thread of the event loop (lifespan, request handlers) and the worker
\* thread of the BackgroundScheduler
Threads == {"loop", "job"}

VARIABLES
    wallets,      \* the wallet table: row i has id i
    txs,          \* the transaction table: row i has id i
    pc,           \* per caller: the statement it is at
    req,          \* per caller: the arguments of the running call
    loc,          \* per caller: the locals of the running call
    res,          \* per caller: how its last call ended and what it returned
    pre,          \* per caller: the tables as they were when it was called
    alone,        \* per caller: no other call was started since its call began
    calls,        \* calls started so far
    seed,         \* the wallet table the run started on
    mode,         \* settings.fx_rate_mode
    usd_to_mxn,   \* FXRateService._usd_to_mxn
    mxn_to_usd,   \* FXRateService._mxn_to_usd
    upd,          \* per thread: new_rate of its refresh, NoNumber when none
    scheduler,    \* FXRateService.scheduler: "none", "running" or "stopped"
    rpc,          \* per thread: the statement of FXRateService it is at
    lop,          \* the event loop's call of FXRateService and how it ended
    seen          \* what the last get_rates read

vars == <<wallets, txs, pc, req, loc, res, pre, alone, calls,
          seed, mode, usd_to_mxn, mxn_to_usd, upd, scheduler, rpc, lop, seen>>
store == <<wallets, txs>>
rates == <<usd_to_mxn, mxn_to_usd, upd, scheduler, rpc, lop, seen>>
config == <<mode, seed>>
service == <<store, pc, req, loc, res, pre, alone, calls, config>>

\* ------------------------------------------------------------ arithmetic
\* round half away from zero, as the store does for a Numeric column
RoundHalfUp(n, d) ==
    IF n >= 0 THEN (2 * n + d) \div (2 * d)
              ELSE 0 - ((2 * (0 - n) + d) \div (2 * d))

\* a Decimal written to a Numeric(20, 2) column, in cents
Numeric2(fine) == RoundHalfUp(fine, RateScale)

\* a Decimal written to the Numeric(20, 4) column fx_rate
Numeric4(rate) == RoundHalfUp(rate, RateScale \div 10000) * (RateScale \div 10000)

\* a stored 2-digit value as a Decimal
Fine(cents) == cents * RateScale

\* round(1 / new_rate, 4)
InverseRate(new_rate) ==
    RoundHalfUp(10000 * RateScale, new_rate) * (RateScale \div 10000)

\* ----------------------------------------------------------------- store
Wallet(u, c, b) == [user_id |-> u, currency |-> c, balance |-> b]

\* select(Wallet).where(user_id == u, currency == c).first(): the id, or 0
get_by_user_and_currency_none(u, c) == 0
get_by_user_and_currency(u, c) ==
    LET hit == {i \in DOMAIN wallets :
                   wallets[i].user_id = u /\ wallets[i].currency = c}
    IN IF hit = {} THEN 0 ELSE CHOOSE i \in hit : \A j \in hit : i <= j

\* seed_wallets (scaled down): the store the service starts on
Seeds == {<<>>, <<Wallet(1, "USD", 100)>>}

\* UniqueConstraint("user_id", "currency"): may (u, c) be inserted?
UniqueViolationUnchecked(u, c) == FALSE
UniqueViolation(u, c) ==
    \E i \in DOMAIN wallets : wallets[i].user_id = u /\ wallets[i].currency = c

\* created_at: default_factory = datetime.utcnow, when the Transaction object
\* is built.  The clock is read at the resolution of the column; it advances
\* between the start of one call and the start of the next and is taken not
\* to advance within them, so the records of overlapping calls can carry the
\* same time and those of consecutive calls cannot.
utcnow == calls

FundTx(u, c, a) ==
    [user_id |-> u, transaction_type |-> "fund", currency |-> c,
     amount |-> Numeric2(Fine(a)), from_currency |-> NoCurrency,
     to_currency |-> NoCurrency, from_amount |-> NoNumber,
     to_amount |-> NoNumber, fx_rate |-> NoNumber, created_at |-> utcnow]

WithdrawTxMistyped(u, c, a) ==
    [user_id |-> u, transaction_type |-> "fund", currency |-> c,
     amount |-> Numeric2(Fine(a)), from_currency |-> NoCurrency,
     to_currency |-> NoCurrency, from_amount |-> NoNumber,
     to_amount |-> NoNumber, fx_rate |-> NoNumber, created_at |-> utcnow]

WithdrawTx(u, c, a) ==
    [user_id |-> u, transaction_type |-> "withdraw", currency |-> c,
     amount |-> Numeric2(Fine(a)), from_currency |-> NoCurrency,
     to_currency |-> NoCurrency, from_amount |-> NoNumber,
     to_amount |-> NoNumber, fx_rate |-> NoNumber, created_at |-> utcnow]

ConvertTxWithAmount(u, f, t, a, to_amount, fx_rate) ==
    [user_id |-> u, transaction_type |-> "convert", currency |-> NoCurrency,
     amount |-> Numeric2(Fine(a)), from_currency |-> f, to_currency |-> t,
     from_amount |-> Numeric2(Fine(a)), to_amount |-> Numeric2(to_amount),
     fx_rate |-> Numeric4(fx_rate), created_at |-> utcnow]

ConvertTx(u, f, t, a, to_amount, fx_rate) ==
    [user_id |-> u, transaction_type |-> "convert", currency |-> NoCurrency,
     amount |-> NoNumber, from_currency |-> f, to_currency |-> t,
     from_amount |-> Numeric2(Fine(a)), to_amount |-> Numeric2(to_amount),
     fx_rate |-> Numeric4(fx_rate), created_at |-> utcnow]

\* ---------------------------------------------------------------- callers
NoReq == [op |-> "none", user |-> 0, cur |-> NoCurrency, to |-> NoCurrency,
          amount |-> 0, limit |-> 0]
NoLoc == [leg |-> "cur", wid |-> 0, bal |-> 0, fx_rate |-> NoNumber,
          to_amount |-> NoNumber, since |-> 0]
NoRes == [status |-> "none", at |-> "none", new_balance |-> NoNumber,
          to_amount |-> NoNumber, fx_rate |-> NoNumber, wid |-> 0,
          balances |-> <<>>, rows |-> <<>>]

NoPre == [wallets |-> <<>>, txs |-> <<>>]

Running(p) == pc[p] \notin {"idle", "done"}
Quiescent == \A p \in Callers : ~Running(p)

NoOp == [op |-> "none", status |-> "none"]
NoRates == [usd_to_mxn |-> NoNumber, mxn_to_usd |-> NoNumber]

\* the tables and the callers before the first call
InitStore ==
    /\ seed \in Seeds
    /\ wallets = seed
    /\ txs = <<>>
    /\ pc = [p \in Callers |-> "idle"]
    /\ req = [p \in Callers |-> NoReq]
    /\ loc = [p \in Callers |-> NoLoc]
    /\ res = [p \in Callers |-> NoRes]
    /\ pre = [p \in Callers |-> NoPre]
    /\ alone = [p \in Callers |-> TRUE]
    /\ calls = 0
    /\ mode \in Modes
    /\ upd = [t \in Threads |-> NoNumber]
    /\ rpc = [t \in Threads |-> "idle"]
    /\ seen = NoRates

\* FXRateService.__init__: no scheduler, the rates of the settings
Init ==
    /\ InitStore
    /\ usd_to_mxn = DefaultUsdToMxn
    /\ mxn_to_usd = DefaultMxnToUsd
    /\ scheduler = "none"
    /\ lop = NoOp

\* the application once lifespan has called start_scheduler and requests are
\* served: no scheduler under static rates; otherwise the scheduler runs and
\* the immediate refresh is over (random: a listed value and its inverse;
\* api: the feed has not answered yet, the rates of the settings)
InitServing ==
    /\ InitStore
    /\ scheduler = IF mode = "static" THEN "none" ELSE "running"
    /\ lop = [op |-> "start_scheduler", status |-> "ok"]
    /\ IF mode = "random"
       THEN /\ usd_to_mxn \in RandomValues
            /\ mxn_to_usd = InverseRate(usd_to_mxn)
       ELSE /\ usd_to_mxn = DefaultUsdToMxn
            /\ mxn_to_usd = DefaultMxnToUsd

\* Which caller takes the next call.  Callers keep nothing between calls (one
\* Session per call), so a call goes to c1 when c1 is free and to c2 when c1
\* is busy.  Two callers overlap under static rates; with a refreshing rate
\* holder the calls come one at a time (the refresh runs beside them).
Dispatch(p) ==
    \/ p = "c1"
    \/ mode = "static" /\ Running("c1")

\* a caller enters an operation with arguments r; l are its locals and
\* first the statement it is at when it first touches shared state
Enter(p, r, l, first, rs) ==
    /\ ~Running(p)
    /\ Dispatch(p)
    /\ calls < MaxCalls
    /\ calls' = calls + 1
    /\ req' = [req EXCEPT ![p] = r]
    /\ loc' = [loc EXCEPT ![p] = l]
    /\ res' = [res EXCEPT ![p] = rs]
    /\ alone' = [q \in Callers |->
                    IF q = p THEN \A o \in Callers \ {p} : ~Running(o)
                    ELSE FALSE]
    \* the tables at the call are remembered for a call that runs alone
    /\ pre' = [q \in Callers |->
                  IF q = p /\ alone'[q] THEN [wallets |-> wallets, txs |-> txs]
                  ELSE NoPre]
    /\ pc' = [pc EXCEPT ![p] = first]

\* the operation ends: an exception leaves the `with` block, or it returns
Finish(p, r) ==
    /\ pc' = [pc EXCEPT ![p] = "done"]
    /\ res' = [res EXCEPT ![p] = r]
    /\ loc' = [loc EXCEPT ![p] = NoLoc]

Raise(p, status, at) ==
    Finish(p, [NoRes EXCEPT !.status = status, !.at = at])

\* session.commit() fails (connection lost, store error): the statement has
\* no effect and the exception leaves the operation
Fault(p, at) ==
    /\ Raise(p, "StoreError", at)
    /\ UNCHANGED wallets

\* ------------------------------------------- WalletRepository.get_or_create
\* the currency of the wallet the caller is getting
LegCurrency(p) == IF loc[p].leg = "to" THEN req[p].to ELSE req[p].cur

\* where the operation goes on once get_or_create has returned the wallet
AfterGetOrCreate(p) ==
    CASE req[p].op = "fund" -> "fund_update"
      [] req[p].op = "withdraw" -> "withdraw_update"
      [] req[p].op = "convert" /\ loc[p].leg = "cur" -> "convert_debit"
      [] OTHER -> "convert_credit"

\* get_or_create has the wallet w with the balance it read: it returns it
Got(p, w) ==
    /\ loc' = [loc EXCEPT ![p].wid = w, ![p].bal = wallets[w].balance]
    /\ pc' = [pc EXCEPT ![p] = AfterGetOrCreate(p)]
    /\ UNCHANGED res

\* wallet = self.get_by_user_and_currency(user_id, currency)
get_or_create_select(p) ==
    /\ pc[p] = "goc_select"
    /\ LET w == get_by_user_and_currency(req[p].user, LegCurrency(p))
       IN IF w = 0
          THEN /\ pc' = [pc EXCEPT ![p] = "goc_create"]
               /\ UNCHANGED <<loc, res>>
          ELSE Got(p, w)
    /\ UNCHANGED <<store, pre, alone, req, calls, rates, config>>

\* WalletRepository.create: session.add(wallet); session.commit()
get_or_create_create(p) ==
    /\ pc[p] = "goc_create"
    /\ \/ /\ UniqueViolation(req[p].user, LegCurrency(p))
          /\ Raise(p, "IntegrityError", loc[p].leg)
          /\ UNCHANGED wallets
       \/ /\ ~UniqueViolation(req[p].user, LegCurrency(p))
          /\ wallets' = Append(wallets, Wallet(req[p].user, LegCurrency(p), 0))
          /\ loc' = [loc EXCEPT ![p].wid = Len(wallets) + 1]
          /\ pc' = [pc EXCEPT ![p] = "goc_refresh"]
          /\ UNCHANGED res
       \/ /\ Fault(p, loc[p].leg)
    /\ UNCHANGED <<txs, pre, alone, req, calls, rates, config>>

\* WalletRepository.create: session.refresh(wallet)
get_or_create_refresh(p) ==
    /\ pc[p] = "goc_refresh"
    /\ Got(p, loc[p].wid)
    /\ UNCHANGED <<store, pre, alone, req, calls, rates, config>>

\* WalletRepository.update: session.add(wallet); session.commit() of a
\* wallet whose balance attribute holds the Decimal `balance`
update(p, balance) ==
    wallets' = [wallets EXCEPT ![loc[p].wid].balance = Numeric2(balance)]

\* Transaction(...) is built by the service once the wallet update has
\* returned and is inserted afterwards: created_at is a reading of the clock
\* taken between the two, the identity is given by the insert
Constructed(p, transaction) ==
    {[transaction EXCEPT !.created_at = at] : at \in loc[p].since .. utcnow}

\* TransactionRepository.create: session.add(transaction); session.commit()
create_overwriting(transaction) ==
    txs' = <<transaction>>
create(transaction) ==
    txs' = Append(txs, transaction)

\* ------------------------------------------------- WalletService.fund_wallet
fund_wallet(p, u, c, a) ==
    /\ Enter(p, [NoReq EXCEPT !.op = "fund", !.user = u, !.cur = c,
                              !.amount = a], NoLoc, "goc_select", NoRes)
    /\ UNCHANGED <<store, rates, config>>

\* wallet.balance += amount; wallet = wallet_repo.update(wallet)
fund_update(p) ==
    /\ pc[p] = "fund_update"
    /\ \/ /\ update(p, Fine(loc[p].bal) + Fine(req[p].amount))
          /\ loc' = [loc EXCEPT ![p].since = utcnow]
          /\ pc' = [pc EXCEPT ![p] = "fund_tx"]
          /\ UNCHANGED res
       \/ /\ Fault(p, "update")
    /\ UNCHANGED <<txs, pre, alone, req, calls, rates, config>>

\* transaction = transaction_repo.create(Transaction(FUND, currency, amount))
fund_tx(p) ==
    /\ pc[p] = "fund_tx"
    /\ \/ /\ \E transaction \in Constructed(p, FundTx(req[p].user, req[p].cur,
                                                       req[p].amount)) :
                create(transaction)
          /\ pc' = [pc EXCEPT ![p] = "fund_return"]
          /\ UNCHANGED <<res, loc>>
       \/ /\ Fault(p, "tx")
          /\ UNCHANGED txs
    /\ UNCHANGED <<wallets, pre, alone, req, calls, rates, config>>

\* return {..., "new_balance": wallet.balance}: the commit expired the
\* wallet, so the attribute is loaded from the store again
fund_return(p) ==
    /\ pc[p] = "fund_return"
    /\ Finish(p, [NoRes EXCEPT !.status = "ok", !.wid = loc[p].wid,
                      !.new_balance = wallets[loc[p].wid].balance])
    /\ UNCHANGED <<store, pre, alone, req, calls, rates, config>>

\* ---------------------------------------------- WalletService.withdraw_funds
withdraw_funds(p, u, c, a) ==
    /\ Enter(p, [NoReq EXCEPT !.op = "withdraw", !.user = u, !.cur = c,
                              !.amount = a], NoLoc, "goc_select", NoRes)
    /\ UNCHANGED <<store, rates, config>>

\* if wallet.balance < amount: raise ValueError("Insufficient balance...")
InsufficientUnchecked(balance, amount) == FALSE
Insufficient(balance, amount) == balance < amount

\* the balance check, then wallet.balance -= amount; wallet_repo.update(wallet)
withdraw_update(p) ==
    /\ pc[p] = "withdraw_update"
    /\ \/ /\ Insufficient(loc[p].bal, req[p].amount)
          /\ Raise(p, "InsufficientBalance", "check")
          /\ UNCHANGED wallets
       \/ /\ ~Insufficient(loc[p].bal, req[p].amount)
          /\ \/ /\ update(p, Fine(loc[p].bal) - Fine(req[p].amount))
                /\ loc' = [loc EXCEPT ![p].since = utcnow]
                /\ pc' = [pc EXCEPT ![p] = "withdraw_tx"]
                /\ UNCHANGED res
             \/ /\ Fault(p, "update")
    /\ UNCHANGED <<txs, pre, alone, req, calls, rates, config>>

\* transaction_repo.create(Transaction(WITHDRAW, currency, amount))
withdraw_tx(p) ==
    /\ pc[p] = "withdraw_tx"
    /\ \/ /\ \E transaction \in Constructed(p, WithdrawTx(req[p].user,
                                          req[p].cur, req[p].amount)) :
                create(transaction)
          /\ pc' = [pc EXCEPT ![p] = "withdraw_return"]
          /\ UNCHANGED <<res, loc>>
       \/ /\ Fault(p, "tx")
          /\ UNCHANGED txs
    /\ UNCHANGED <<wallets, pre, alone, req, calls, rates, config>>

\* return {..., "new_balance": wallet.balance}, loaded from the store again
withdraw_return(p) ==
    /\ pc[p] = "withdraw_return"
    /\ Finish(p, [NoRes EXCEPT !.status = "ok", !.wid = loc[p].wid,
                      !.new_balance = wallets[loc[p].wid].balance])
    /\ UNCHANGED <<store, pre, alone, req, calls, rates, config>>

\* --------------------------------------------- WalletService.convert_currency
\* fx_rate_service.usd_to_mxn / .mxn_to_usd: Decimal(str(self._usd_to_mxn))
CurrentRate(f, t) == IF f = "USD" /\ t = "MXN" THEN usd_to_mxn ELSE mxn_to_usd

\* if from_currency == to_currency: raise ValueError("Cannot convert ...")
SameCurrencyUnchecked(f, t) == FALSE
SameCurrency(f, t) == f = t

\* the same-currency check, then the rate read and to_amount = amount * fx_rate
convert_currency(p, u, f, t, a) ==
    /\ LET r == [NoReq EXCEPT !.op = "convert", !.user = u, !.cur = f,
                              !.to = t, !.amount = a]
           fx_rate == CurrentRate(f, t)
       IN IF SameCurrency(f, t)
          THEN Enter(p, r, NoLoc, "done",
                     [NoRes EXCEPT !.status = "SameCurrency", !.at = "check"])
          ELSE Enter(p, r, [NoLoc EXCEPT !.fx_rate = fx_rate,
                                         !.to_amount = a * fx_rate],
                     "goc_select", NoRes)
    /\ UNCHANGED <<store, rates, config>>

\* the balance check, then from_wallet.balance -= amount;
\* wallet_repo.update(from_wallet)
convert_debit(p) ==
    /\ pc[p] = "convert_debit"
    /\ \/ /\ Insufficient(loc[p].bal, req[p].amount)
          /\ Raise(p, "InsufficientBalance", "check")
          /\ UNCHANGED wallets
       \/ /\ ~Insufficient(loc[p].bal, req[p].amount)
          /\ \/ /\ update(p, Fine(loc[p].bal) - Fine(req[p].amount))
                /\ loc' = [loc EXCEPT ![p].leg = "to"]
                /\ pc' = [pc EXCEPT ![p] = "goc_select"]
                /\ UNCHANGED res
             \/ /\ Fault(p, "debit")
    /\ UNCHANGED <<txs, pre, alone, req, calls, rates, config>>

\* to_wallet.balance += to_amount; wallet_repo.update(to_wallet)
convert_credit(p) ==
    /\ pc[p] = "convert_credit"
    /\ \/ /\ update(p, Fine(loc[p].bal) + loc[p].to_amount)
          /\ loc' = [loc EXCEPT ![p].since = utcnow]
          /\ pc' = [pc EXCEPT ![p] = "convert_tx"]
          /\ UNCHANGED res
       \/ /\ Fault(p, "credit")
    /\ UNCHANGED <<txs, pre, alone, req, calls, rates, config>>

\* transaction_repo.create(Transaction(CONVERT, ...)); return {...}
convert_tx(p) ==
    /\ pc[p] = "convert_tx"
    /\ \/ /\ \E transaction \in Constructed(p, ConvertTx(req[p].user,
                                req[p].cur, req[p].to, req[p].amount,
                                loc[p].to_amount, loc[p].fx_rate)) :
                create(transaction)
          /\ Finish(p, [NoRes EXCEPT !.status = "ok",
                            !.to_amount = loc[p].to_amount,
                            !.fx_rate = loc[p].fx_rate])
       \/ /\ Fault(p, "tx")
          /\ UNCHANGED txs
    /\ UNCHANGED <<wallets, pre, alone, req, calls, rates, config>>

\* ------------------------------------------------------------- the queries
\* a free caller takes the query, as it would take a call
Asking(p) == ~Running(p) /\ Dispatch(p)

\* a caller runs a query: one SELECT, which changes nothing in the store
Ask(p, r, rs) ==
    /\ Asking(p)
    /\ req' = [req EXCEPT ![p] = r]
    /\ res' = [res EXCEPT ![p] = rs]
    /\ loc' = [loc EXCEPT ![p] = NoLoc]
    /\ alone' = [alone EXCEPT ![p] = \A o \in Callers \ {p} : ~Running(o)]
    /\ pre' = [pre EXCEPT ![p] = IF alone'[p]
                                 THEN [wallets |-> wallets, txs |-> txs]
                                 ELSE NoPre]
    /\ pc' = [pc EXCEPT ![p] = "done"]
    /\ UNCHANGED <<store, calls, rates, config>>

\* WalletRepository.get_all_by_user: the ids of the user's wallets
get_all_by_user_everyone(u) == DOMAIN wallets
get_all_by_user(u) == {i \in DOMAIN wallets : wallets[i].user_id = u}

\* {wallet.currency.value: wallet.balance for wallet in wallets}
BalancesNone(u) == <<>>
Balances(u) ==
    [c \in {wallets[i].currency : i \in get_all_by_user(u)} |->
        wallets[CHOOSE i \in get_all_by_user(u) : wallets[i].currency = c].balance]

\* WalletService.get_balances
get_balances(p, u) ==
    /\ Asking(p)
    /\ Ask(p, [NoReq EXCEPT !.op = "balances", !.user = u],
              [NoRes EXCEPT !.status = "ok", !.balances = Balances(u)])

\* the orders in which the rows ids can be listed
Orderings(ids) ==
    {s \in [1..Cardinality(ids) -> ids] :
        \A i, j \in 1..Cardinality(ids) : i # j => s[i] # s[j]}

\* .order_by(Transaction.created_at.desc()): rows of equal created_at come
\* in whatever order the store yields them
created_at_asc(s) ==
    \A i, j \in DOMAIN s : i < j => txs[s[i]].created_at <= txs[s[j]].created_at
created_at_desc(s) ==
    \A i, j \in DOMAIN s : i < j => txs[s[i]].created_at >= txs[s[j]].created_at

\* statement.limit(limit), applied when limit is truthy
LimitedNever(s, limit) == s
Limited(s, limit) ==
    IF limit # 0 /\ limit < Len(s) THEN SubSeq(s, 1, limit) ELSE s

\* TransactionRepository.get_by_user: the lists of ids it can return
get_by_user(u, limit) ==
    {Limited(s, limit) :
        s \in {o \in Orderings({i \in DOMAIN txs : txs[i].user_id = u}) :
                  created_at_desc(o)}}

\* WalletService.get_transactions
get_transactions(p, u, limit) ==
    /\ Asking(p)
    /\ \E rows \in get_by_user(u, limit) :
          Ask(p, [NoReq EXCEPT !.op = "transactions", !.user = u,
                              !.limit = limit],
                 [NoRes EXCEPT !.status = "ok", !.rows = rows])

\* ------------------------------------------------------- FXRateService
\* a thread leaves FXRateService; the event loop's call has returned
Return(t) ==
    /\ rpc' = [rpc EXCEPT ![t] = "idle"]
    /\ lop' = IF t = "loop" THEN [lop EXCEPT !.status = "ok"] ELSE lop

\* the event loop calls into FXRateService and goes to statement first
Call(op, first) ==
    /\ rpc["loop"] = "idle"
    /\ rpc' = [rpc EXCEPT !["loop"] = first]
    /\ lop' = [op |-> op, status |-> "none"]

\* the event loop calls and returns at once: "ok", or "warned" when the
\* call has logged a warning
CallReturn(op, status) ==
    /\ rpc["loop"] = "idle"
    /\ lop' = [op |-> op, status |-> status]
    /\ UNCHANGED rpc

\* self.scheduler and self.scheduler.running
SchedulerRunningNever == FALSE
SchedulerRunning == scheduler = "running"

\* settings.fx_rate_mode == "static"
StaticUnchecked == FALSE
Static == mode = "static"

\* start_scheduler: nothing under static rates or with a running scheduler;
\* otherwise BackgroundScheduler().start() with the one interval job, then
\* self.update_rates() in the calling thread
start_scheduler ==
    /\ IF Static \/ SchedulerRunning
       THEN /\ CallReturn("start_scheduler",
                          IF Static THEN "ok" ELSE "warned")
            /\ UNCHANGED scheduler
       ELSE /\ Call("start_scheduler", "update_rates")
            /\ scheduler' = "running"
    /\ UNCHANGED <<usd_to_mxn, mxn_to_usd, upd, seen, service>>

\* the IntervalTrigger fires: the worker thread runs the job update_rates
\* (one instance of the job at a time)
tick_never == FALSE
tick ==
    /\ scheduler = "running"
    /\ rpc["job"] = "idle"
    /\ rpc' = [rpc EXCEPT !["job"] = "update_rates"]
    /\ UNCHANGED <<usd_to_mxn, mxn_to_usd, upd, scheduler, lop, seen, service>>

\* fx_rate_service.update_rates() called directly
update_rates_call ==
    /\ Call("update_rates", "update_rates")
    /\ UNCHANGED <<usd_to_mxn, mxn_to_usd, upd, scheduler, seen, service>>

\* update_rates: _update_random_rates / _update_api_rates up to
\* `self._usd_to_mxn = new_rate`; every exception is caught and logged
update_rates(t, answer) ==
    /\ rpc[t] = "update_rates"
    /\ CASE mode = "random" ->
              /\ answer \in RandomValues
              /\ usd_to_mxn' = answer
              /\ upd' = [upd EXCEPT ![t] = answer]
              /\ rpc' = [rpc EXCEPT ![t] = "inverse"]
              /\ UNCHANGED <<mxn_to_usd, lop>>
         [] mode = "api" ->
              /\ answer \in ApiAnswers
              /\ IF answer = NoNumber
                 \* the request or the parse failed: logged, nothing assigned
                 THEN /\ Return(t)
                      /\ UNCHANGED <<usd_to_mxn, mxn_to_usd, upd>>
                 ELSE IF answer = 0
                 \* round(1 / 0.0, 4) raises after the first assignment
                 THEN /\ usd_to_mxn' = answer
                      /\ Return(t)
                      /\ UNCHANGED <<mxn_to_usd, upd>>
                 ELSE /\ usd_to_mxn' = answer
                      /\ upd' = [upd EXCEPT ![t] = answer]
                      /\ rpc' = [rpc EXCEPT ![t] = "inverse"]
                      /\ UNCHANGED <<mxn_to_usd, lop>>
         [] OTHER ->
              /\ answer = NoNumber
              /\ Return(t)
              /\ UNCHANGED <<usd_to_mxn, mxn_to_usd, upd>>
    /\ UNCHANGED <<scheduler, seen, service>>

\* self._mxn_to_usd = round(1 / new_rate, 4)
update_rates_inverse(t) ==
    /\ rpc[t] = "inverse"
    /\ mxn_to_usd' = InverseRate(upd[t])
    /\ upd' = [upd EXCEPT ![t] = NoNumber]
    /\ Return(t)
    /\ UNCHANGED <<usd_to_mxn, scheduler, seen, service>>

\* scheduler.shutdown() returns when the worker has finished its job
JobsFinishedUnchecked == TRUE
JobsFinished == rpc["job"] = "idle"

\* stop_scheduler: shutdown() of a running scheduler, else nothing
stop_scheduler ==
    /\ IF SchedulerRunning
       THEN IF scheduler = "running"
            THEN /\ Call("stop_scheduler", "shutdown")
                 /\ scheduler' = "stopped"
            \* shutdown() of a scheduler that does not run raises
            ELSE /\ rpc["loop"] = "idle"
                 /\ lop' = [op |-> "stop_scheduler", status |-> "raised"]
                 /\ UNCHANGED <<rpc, scheduler>>
       ELSE /\ CallReturn("stop_scheduler", "ok")
            /\ UNCHANGED scheduler
    /\ UNCHANGED <<usd_to_mxn, mxn_to_usd, upd, seen, service>>

shutdown_return ==
    /\ rpc["loop"] = "shutdown"
    /\ JobsFinished
    /\ Return("loop")
    /\ UNCHANGED <<usd_to_mxn, mxn_to_usd, upd, scheduler, seen, service>>

\* get_rates: the dictionary is built from two reads
get_rates ==
    /\ Call("get_rates", "get_rates")
    /\ seen' = [NoRates EXCEPT !.usd_to_mxn = usd_to_mxn]
    /\ UNCHANGED <<usd_to_mxn, mxn_to_usd, upd, scheduler, service>>

get_rates_return ==
    /\ rpc["loop"] = "get_rates"
    /\ seen' = [seen EXCEPT !.mxn_to_usd = mxn_to_usd]
    /\ Return("loop")
    /\ UNCHANGED <<usd_to_mxn, mxn_to_usd, upd, scheduler, service>>

\* the rate holder alone: lifespan, the /fx-rates route, the scheduler's job
NextRates ==
    \/ start_scheduler
    \/ stop_scheduler
    \/ shutdown_return
    \/ update_rates_call
    \/ get_rates
    \/ get_rates_return
    \/ tick
    \/ \E t \in Threads, answer \in RandomValues \cup ApiAnswers :
          update_rates(t, answer)
    \/ \E t \in Threads : update_rates_inverse(t)

SpecRates == Init /\ [][NextRates]_vars

\* the threads run: the scheduler's timer fires while the scheduler runs, and
\* a thread inside update_rates reaches its end (the feed request has a
\* timeout)
SpecRatesFair ==
    /\ SpecRates
    /\ WF_vars(tick)
    /\ \A t \in Threads :
          /\ WF_vars(\E answer \in RandomValues \cup ApiAnswers :
                        update_rates(t, answer))
          /\ WF_vars(update_rates_inverse(t))

\* the statements of the calls in progress and the rate refresh
Steps ==
    \/ \E p \in Callers : get_or_create_select(p)
    \/ \E p \in Callers : get_or_create_create(p)
    \/ \E p \in Callers : get_or_create_refresh(p)
    \/ \E p \in Callers : fund_update(p)
    \/ \E p \in Callers : fund_tx(p)
    \/ \E p \in Callers : fund_return(p)
    \/ \E p \in Callers : withdraw_update(p)
    \/ \E p \in Callers : withdraw_tx(p)
    \/ \E p \in Callers : withdraw_return(p)
    \/ \E p \in Callers : convert_debit(p)
    \/ \E p \in Callers : convert_credit(p)
    \/ \E p \in Callers : convert_tx(p)
    \/ tick
    \/ \E answer \in RandomValues \cup ApiAnswers : update_rates("job", answer)
    \/ update_rates_inverse("job")

\* the service behind the API routes: the request schemas (amount: gt=0)
\* let only positive amounts through
Next ==
    \/ \E p \in Callers, u \in Users, c \in Currencies, a \in FundAmounts :
          fund_wallet(p, u, c, a)
    \/ \E p \in Callers, u \in Users, c \in Currencies, a \in Amounts :
          withdraw_funds(p, u, c, a)
    \/ \E p \in Callers, u \in Users, f \in Currencies, t \in Currencies,
          a \in Amounts : convert_currency(p, u, f, t, a)
    \/ Steps

Spec == InitServing /\ [][Next]_vars

\* the service with its two queries, on a store that starts empty
InitEmpty == InitServing /\ seed = <<>>

NextQueries ==
    \/ Next
    \/ \E p \in Callers, u \in Users : get_balances(p, u)
    \/ \E p \in Callers, u \in Users, limit \in Limits :
          get_transactions(p, u, limit)

SpecQueries == InitEmpty /\ [][NextQueries]_vars

\* the service and its queries with two users, on a store that starts empty:
\* each user funds and withdraws dollars and converts them to pesos
NextUsers ==
    \/ \E p \in Callers, u \in TwoUsers, a \in FundAmounts :
          fund_wallet(p, u, "USD", a)
    \/ \E p \in Callers, u \in TwoUsers, a \in FundAmounts :
          withdraw_funds(p, u, "USD", a)
    \/ \E p \in Callers, u \in TwoUsers, a \in FundAmounts :
          convert_currency(p, u, "USD", "MXN", a)
    \/ \E p \in Callers, u \in TwoUsers : get_balances(p, u)
    \/ \E p \in Callers, u \in TwoUsers : get_transactions(p, u, 0)
    \/ Steps

SpecUsers == InitEmpty /\ [][NextUsers]_vars

\* the service called directly (WalletService.fund_wallet(user_id, currency,
\* amount) takes any Decimal): no schema stands before it
NextEngine ==
    \/ \E p \in Callers, u \in Users, c \in Currencies, a \in EngineAmounts :
          fund_wallet(p, u, c, a)
    \/ \E p \in Callers, u \in Users, c \in Currencies, a \in EngineAmounts :
          withdraw_funds(p, u, c, a)
    \/ \E p \in Callers, u \in Users, f \in Currencies, t \in Currencies,
          a \in EngineAmounts : convert_currency(p, u, f, t, a)
    \/ Steps

SpecEngine == InitServing /\ [][NextEngine]_vars

\* ============================================================== properties
Done(p) == pc[p] = "done"

\* a call that has returned and that ran with no other call beside it
Solo(p) == Done(p) /\ alone[p]

\* the rows of table ws for (u, c)
RowsOf(ws, u, c) ==
    {i \in DOMAIN ws : ws[i].user_id = u /\ ws[i].currency = c}

\* the balance (u, c) has in table ws; 0 when (u, c) has no wallet there
BalanceIn(ws, u, c) ==
    IF RowsOf(ws, u, c) = {} THEN 0
    ELSE ws[CHOOSE i \in RowsOf(ws, u, c) : TRUE].balance

\* ------------------------------------------------------------------- C1
\* C1: whatever fund, withdraw and convert calls have run, in whatever
\* interleaving, no wallet row of the store has a negative balance.
C1_BalanceNonNegative ==
    \A i \in DOMAIN wallets : wallets[i].balance >= 0

\* two overlapping calls have both debited the same wallet, which is now empty
C1_Witness ==
    /\ \A p \in Callers :
          /\ Done(p)
          /\ res[p].status = "ok"
          /\ req[p].op \in {"withdraw", "convert"}
          /\ req[p].cur = "USD"
          /\ ~alone[p]
    /\ BalanceIn(wallets, 1, "USD") = 0

\* the newest row of the transaction table
LastTx == txs[Len(txs)]

\* the store is exactly as it was when p was called
StoreAsBefore(p) == wallets = pre[p].wallets /\ txs = pre[p].txs

\* ------------------------------------------------------------------- C2
\* C2: a convert whose destination-side step (get-or-create of the
\* destination wallet, or the persist of the credit) fails after the debit
\* was persisted leaves the source wallet, the destination wallet and the
\* transaction log exactly as they were before the call.
C2_ConvertRollsBack ==
    \A p \in Callers :
        (/\ Solo(p)
         /\ req[p].op = "convert"
         /\ res[p].status \in {"StoreError", "IntegrityError"}
         /\ res[p].at \in {"to", "credit"})
        => StoreAsBefore(p)

\* ------------------------------------------------------------------- C3
\* C3: a fund, withdraw or convert whose transaction append fails after the
\* wallet update(s) were persisted leaves no balance change behind: the
\* store is as it was before the call.
C3_AppendFailureRollsBack ==
    \A p \in Callers :
        (/\ Solo(p)
         /\ res[p].status = "StoreError"
         /\ res[p].at = "tx")
        => StoreAsBefore(p)

\* ------------------------------------------------------------------- C4
\* C4: after a successful convert(user, from, to, amount) that read rate r and
\* ran alone, source = source before - amount, destination = destination
\* before + round(amount * r, 2), and exactly one transaction was appended:
\* a convert carrying from_amount = amount, that to_amount and fx_rate = r.
C4_ConvertConservation ==
    \A p \in Callers :
        (/\ Solo(p)
         /\ req[p].op = "convert"
         /\ res[p].status = "ok")
        => LET u == req[p].user
               a == req[p].amount
               r == res[p].fx_rate
               to_amount == RoundHalfUp(a * r, RateScale)
           IN /\ BalanceIn(wallets, u, req[p].cur)
                    = BalanceIn(pre[p].wallets, u, req[p].cur) - a
              /\ BalanceIn(wallets, u, req[p].to)
                    = BalanceIn(pre[p].wallets, u, req[p].to) + to_amount
              /\ Len(txs) = Len(pre[p].txs) + 1
              /\ SubSeq(txs, 1, Len(pre[p].txs)) = pre[p].txs
              /\ LastTx.user_id = u
              /\ LastTx.transaction_type = "convert"
              /\ LastTx.from_amount = a
              /\ LastTx.to_amount = to_amount
              /\ LastTx.fx_rate = r

\* ------------------------------------------------------------------- C5
\* C5: the rate a convert read (once, when it was called) is the value its
\* to_amount was computed with and the fx_rate of the transaction it
\* recorded, whatever refresh happened between the read and the append.
C5_RecordedRateIsRateRead ==
    \A p \in Callers :
        (/\ Solo(p)
         /\ req[p].op = "convert"
         /\ res[p].status = "ok")
        => /\ LastTx.fx_rate = res[p].fx_rate
           /\ LastTx.to_amount = Numeric2(req[p].amount * LastTx.fx_rate)

\* ------------------------------------------------------------------- C6
\* C6: after two overlapping successful fund calls of a and b on the wallet
\* (u, c) that held B, the stored balance is B + a + b.
C6_NoLostUpdate ==
    \A p, q \in Callers :
        (/\ p # q
         /\ calls = 2
         /\ Done(p) /\ Done(q)
         /\ req[p].op = "fund" /\ req[q].op = "fund"
         /\ res[p].status = "ok" /\ res[q].status = "ok"
         /\ req[p].user = req[q].user /\ req[p].cur = req[q].cur)
        => BalanceIn(wallets, req[p].user, req[p].cur)
              = BalanceIn(seed, req[p].user, req[p].cur)
                   + req[p].amount + req[q].amount

\* ------------------------------------------------------------------- C7
\* p is about to persist a wallet whose stored balance is no longer the one
\* p read: another unit of work modified it in between
Stale(p) ==
    /\ pc[p] \in {"fund_update", "withdraw_update", "convert_debit",
                  "convert_credit"}
    /\ wallets[loc[p].wid].balance # loc[p].bal

\* C7: update(wallet) of a wallet that was modified by another unit of work
\* since this one read it fails with ConcurrentModification and persists
\* nothing.
C7_StaleUpdateFails ==
    [][\A p \in Callers :
          (/\ Stale(p)
           /\ pc'[p] # pc[p]
           /\ res'[p].status \notin {"InsufficientBalance", "StoreError"})
          => /\ wallets' = wallets
             /\ res'[p].status = "ConcurrentModification"]_vars

\* ------------------------------------------------------------------- C8
\* C8: when two get_or_create calls for the same never-seen (user, currency)
\* overlap, one wallet with balance 0.00 is stored, both calls get that
\* wallet and neither ends with an error (the store itself failing no write).
C8_ConcurrentGetOrCreate ==
    \A p, q \in Callers :
        (/\ p # q
         /\ Done(p) /\ Done(q)
         /\ ~alone[p] /\ ~alone[q]
         /\ req[p].op \in {"fund", "withdraw"}
         /\ req[q].op \in {"fund", "withdraw"}
         /\ req[p].user = req[q].user /\ req[p].cur = req[q].cur
         /\ res[p].status # "StoreError" /\ res[q].status # "StoreError"
         /\ RowsOf(seed, req[p].user, req[p].cur) = {})
        => /\ Cardinality(RowsOf(wallets, req[p].user, req[p].cur)) = 1
           /\ res[p].status # "IntegrityError"
           /\ res[q].status # "IntegrityError"

\* ------------------------------------------------------------------- C9
\* C9: in every reachable state the store holds at most one wallet row for
\* each (user, currency) pair.
C9_OneWalletPerUserCurrency ==
    \A i, j \in DOMAIN wallets :
        (wallets[i].user_id = wallets[j].user_id
            /\ wallets[i].currency = wallets[j].currency) => i = j

\* two overlapping calls raced to create the same wallet: one insert was
\* refused by the constraint and the wallet is there once
C9_Witness ==
    /\ \E p \in Callers :
          /\ Done(p)
          /\ res[p].status = "IntegrityError"
          /\ Cardinality(RowsOf(wallets, req[p].user, req[p].cur)) = 1
    /\ Len(wallets) = 2

\* ------------------------------------------------------------------ C10
\* the wallet p withdraws from, as it was when p was called
WithdrawShort(p) ==
    /\ Solo(p)
    /\ req[p].op = "withdraw"
    /\ BalanceIn(pre[p].wallets, req[p].user, req[p].cur) < req[p].amount

ConvertShort(p) ==
    /\ Solo(p)
    /\ req[p].op = "convert"
    /\ req[p].cur # req[p].to
    /\ BalanceIn(pre[p].wallets, req[p].user, req[p].cur) < req[p].amount

C12_SameCurrencyRejected ==
    \A p \in Callers :
        (req[p].op = "convert" /\ req[p].cur = req[p].to)
        => /\ pc[p] = "done"
           /\ res[p].status = "SameCurrency"
           /\ res[p].fx_rate = NoNumber
           /\ res[p].to_amount = NoNumber
           /\ alone[p] => StoreAsBefore(p)

\* a USD to USD convert of an amount the wallet covers was refused and the
\* wallet still holds what it held
C12_Witness ==
    \E p \in Callers :
        /\ Solo(p)
        /\ req[p].op = "convert"
        /\ req[p].cur = "USD" /\ req[p].to = "USD"
        /\ res[p].status = "SameCurrency"
        /\ BalanceIn(pre[p].wallets, 1, "USD") >= req[p].amount
        /\ BalanceIn(wallets, 1, "USD") >= req[p].amount

\* ------------------------------------------------------------------ C13
\* C13: a fund, withdraw or convert (between two different currencies)
\* called on the service with an amount <= 0, the store failing no write,
\* ends with the invalid-amount error, and when it ran alone both tables
\* are as they were before the call.
C13_NonPositiveAmountRejected ==
    \A p \in Callers :
        (/\ Done(p)
         /\ req[p].op \in {"fund", "withdraw", "convert"}
         /\ req[p].cur # req[p].to
         /\ req[p].amount <= 0
         /\ res[p].status \notin {"StoreError", "IntegrityError"})
        => /\ res[p].status = "InvalidAmount"
           /\ alone[p] => StoreAsBefore(p)

\* ------------------------------------------------------------------ C14
\* what a successful fund of p, run alone, leaves behind: the wallet holds
\* what it held (0 when it was absent) plus the amount, one fund record was
\* appended, the balance returned is the stored one, and the user's wallet
\* in the other currency is as it was
FundEffect(p) ==
    LET u == req[p].user
        c == req[p].cur
    IN /\ Cardinality(RowsOf(wallets, u, c)) = 1
       /\ BalanceIn(wallets, u, c)
             = BalanceIn(pre[p].wallets, u, c) + req[p].amount
       /\ res[p].new_balance = BalanceIn(wallets, u, c)
       /\ Len(txs) = Len(pre[p].txs) + 1
       /\ SubSeq(txs, 1, Len(pre[p].txs)) = pre[p].txs
       /\ LastTx.user_id = u
       /\ LastTx.transaction_type = "fund"
       /\ LastTx.currency = c
       /\ LastTx.amount = req[p].amount
       /\ \A o \in Currencies \ {c} :
             /\ RowsOf(wallets, u, o) = RowsOf(pre[p].wallets, u, o)
             /\ BalanceIn(wallets, u, o) = BalanceIn(pre[p].wallets, u, o)

\* C14: a fund with amount > 0, the store failing no write, always succeeds,
\* and one that ran alone has left exactly its effect behind.
C14_FundAlwaysSucceeds ==
    \A p \in Callers :
        (/\ Done(p)
         /\ req[p].op = "fund"
         /\ req[p].amount > 0
         /\ res[p].status # "StoreError")
        => /\ res[p].status = "ok"
           /\ alone[p] => FundEffect(p)

\* ------------------------------------------------------------------ C15
\* C15: a withdraw of an amount with 0 < amount <= the balance it read, the
\* store failing no write, is not refused; its update sets the stored
\* balance to that balance - amount and touches nothing else, its next step
\* appends exactly one withdraw record with that currency and amount, and it
\* returns ok with new_balance equal to the stored balance of that wallet.
C15_WithdrawWithinBalance ==
    [][\A p \in Callers :
          /\ (/\ pc[p] = "withdraw_update" /\ pc'[p] # pc[p]
               /\ 0 < req[p].amount /\ req[p].amount <= loc[p].bal
               /\ res'[p].status # "StoreError")
              => /\ pc'[p] = "withdraw_tx"
                 /\ wallets' = [wallets EXCEPT ![loc[p].wid].balance =
                                    loc[p].bal - req[p].amount]
                 /\ txs' = txs
          /\ (/\ pc[p] = "withdraw_tx" /\ pc'[p] # pc[p]
               /\ res'[p].status # "StoreError")
              => /\ pc'[p] = "withdraw_return"
                 /\ wallets' = wallets
                 /\ Len(txs') = Len(txs) + 1
                 /\ SubSeq(txs', 1, Len(txs)) = txs
                 /\ txs'[Len(txs')].user_id = req[p].user
                 /\ txs'[Len(txs')].transaction_type = "withdraw"
                 /\ txs'[Len(txs')].currency = req[p].cur
                 /\ txs'[Len(txs')].amount = req[p].amount
          /\ (pc[p] = "withdraw_return" /\ pc'[p] # pc[p])
              => /\ res'[p].status = "ok"
                 /\ wallets'[res'[p].wid].user_id = req[p].user
                 /\ wallets'[res'[p].wid].currency = req[p].cur
                 /\ res'[p].new_balance = wallets'[res'[p].wid].balance
                 /\ wallets' = wallets
                 /\ txs' = txs]_vars

\* a withdraw of exactly the balance, run alone, succeeded: the wallet is
\* left with 0.00, that is the balance returned, and one record was added
C15_Witness ==
    \E p \in Callers :
        /\ Solo(p)
        /\ req[p].op = "withdraw"
        /\ res[p].status = "ok"
        /\ req[p].amount = BalanceIn(pre[p].wallets, req[p].user, req[p].cur)
        /\ BalanceIn(wallets, req[p].user, req[p].cur) = 0
        /\ res[p].new_balance = 0
        /\ Len(txs) = Len(pre[p].txs) + 1
        /\ LastTx.transaction_type = "withdraw"
        /\ LastTx.amount = req[p].amount

\* ------------------------------------------------------------------ C16
\* what record t adds to the balance of (u, c)
Delta(t, u, c) ==
    IF t.user_id # u THEN 0
    ELSE CASE t.transaction_type = "fund" ->
                 IF t.currency = c THEN t.amount ELSE 0
           [] t.transaction_type = "withdraw" ->
                 IF t.currency = c THEN 0 - t.amount ELSE 0
           [] OTHER ->
                 (IF t.to_currency = c THEN t.to_amount ELSE 0)
                    - (IF t.from_currency = c THEN t.from_amount ELSE 0)

\* the net of the first n records for (u, c)
RECURSIVE NetUpTo(_, _, _)
NetUpTo(n, u, c) ==
    IF n = 0 THEN 0 ELSE NetUpTo(n - 1, u, c) + Delta(txs[n], u, c)

Net(u, c) == NetUpTo(Len(txs), u, c)

\* the run so far started on an empty store, its calls came one after the
\* other (the second caller was never needed) and every one of them
\* succeeded (each has recorded its transaction)
SequentialSuccessful ==
    /\ seed = <<>>
    /\ pc["c2"] = "idle"
    /\ ~Running("c1")
    /\ Len(txs) = calls

\* C16: after a sequential run of successful fund, convert and withdraw
\* calls from an empty store, get_balances reports for each currency the
\* running net of the operations (no entry only where the net is 0), and
\* get_transactions returns one record per operation, the most recently
\* performed first.
C16_SequentialRunReported ==
    \A p \in Callers :
        (Done(p) /\ SequentialSuccessful)
        => /\ req[p].op = "balances"
              => \A c \in Currencies :
                    IF c \in DOMAIN res[p].balances
                    THEN res[p].balances[c] = Net(req[p].user, c)
                    ELSE Net(req[p].user, c) = 0
           /\ (req[p].op = "transactions" /\ req[p].limit = 0)
              => /\ Len(res[p].rows) = calls
                 /\ \A i \in 1..Len(txs) :
                       res[p].rows[i] = Len(txs) + 1 - i

\* a fund and then a convert ran, one after the other, and get_transactions
\* has returned the convert record first and the fund record second
C16_Witness ==
    \E p \in Callers :
        /\ Done(p) /\ SequentialSuccessful
        /\ req[p].op = "transactions" /\ req[p].limit = 0
        /\ calls = 2
        /\ res[p].rows = <<2, 1>>
        /\ txs[1].transaction_type = "fund"
        /\ txs[2].transaction_type = "convert"
        /\ txs[2].to_amount > 0

\* ------------------------------------------------------------------ C17
\* C17: two overlapping calls that update the same wallet, the store failing
\* no write, end either both applied (the balance carries both amounts) or
\* with one of them surfaced as a conflict error and without effect (the
\* balance carries the other amount only).
C17_ConflictRetriedOrSurfaced ==
    \A p, q \in Callers :
        (/\ p # q
         /\ calls = 2
         /\ Done(p) /\ Done(q)
         /\ req[p].op = "fund" /\ req[q].op = "fund"
         /\ req[p].user = req[q].user /\ req[p].cur = req[q].cur
         /\ res[p].status \notin {"StoreError", "IntegrityError"}
         /\ res[q].status \notin {"StoreError", "IntegrityError"})
        => LET before == BalanceIn(seed, req[p].user, req[p].cur)
               now == BalanceIn(wallets, req[p].user, req[p].cur)
           IN \/ /\ res[p].status = "ok" /\ res[q].status = "ok"
                 /\ now = before + req[p].amount + req[q].amount
              \/ /\ res[p].status = "ok"
                 /\ res[q].status = "ConcurrentModification"
                 /\ now = before + req[p].amount
              \/ /\ res[q].status = "ok"
                 /\ res[p].status = "ConcurrentModification"
                 /\ now = before + req[q].amount

\* ------------------------------------------------------------------ C18
\* C18: no step of a fund, withdraw, convert, get_balances or
\* get_transactions call changes or removes a record of the transaction
\* log: the log after any step extends the log before it.
C18_LogAppendOnly ==
    [][/\ Len(txs') >= Len(txs)
       /\ SubSeq(txs', 1, Len(txs)) = txs]_vars

\* the log holds two records and a get_transactions call has returned them
C18_Witness ==
    /\ Len(txs) = 2
    /\ \E p \in Callers :
          /\ Done(p)
          /\ req[p].op = "transactions"
          /\ Len(res[p].rows) = 2

\* ------------------------------------------------------------------ C19
\* C19: every record of the log has the field group of its kind and only
\* that one: fund and withdraw records have currency and amount and none of
\* the five conversion fields; convert records have the five conversion
\* fields, with two different currencies, and neither currency nor amount.
C19_FieldGroupMatchesKind ==
    \A i \in DOMAIN txs :
        LET t == txs[i]
        IN IF t.transaction_type \in {"fund", "withdraw"}
           THEN /\ t.currency \in Currencies
                /\ t.amount # NoNumber
                /\ t.from_currency = NoCurrency
                /\ t.to_currency = NoCurrency
                /\ t.from_amount = NoNumber
                /\ t.to_amount = NoNumber
                /\ t.fx_rate = NoNumber
           ELSE /\ t.transaction_type = "convert"
                /\ t.from_currency \in Currencies
                /\ t.to_currency \in Currencies
                /\ t.from_currency # t.to_currency
                /\ t.from_amount # NoNumber
                /\ t.to_amount # NoNumber
                /\ t.fx_rate # NoNumber
                /\ t.currency = NoCurrency
                /\ t.amount = NoNumber

\* the log holds a record of one kind of each group
C19_Witness ==
    /\ \E i \in DOMAIN txs : txs[i].transaction_type \in {"fund", "withdraw"}
    /\ \E i \in DOMAIN txs : txs[i].transaction_type = "convert"

\* ------------------------------------------------------------------ C20
\* C20: the list get_transactions returned is ordered by creation time
\* descending, and two records of equal creation time come in descending
\* identity order.
C20_TiesByIdentityDescending ==
    \A p \in Callers :
        (Done(p) /\ req[p].op = "transactions")
        => \A i, j \in DOMAIN res[p].rows :
              i < j =>
                LET a == res[p].rows[i]
                    b == res[p].rows[j]
                IN \/ txs[a].created_at > txs[b].created_at
                   \/ txs[a].created_at = txs[b].created_at /\ a > b

\* ------------------------------------------------------------------ C21
\* the step in which p asks the query op and gets its answer
Answered(p, op) ==
    /\ req'[p].op = op
    /\ pc'[p] = "done"
    /\ <<req[p], res[p], pc[p]>> # <<req'[p], res'[p], pc'[p]>>

\* the smaller of two numbers
Min(a, b) == IF a < b THEN a ELSE b

\* C21: get_transactions(user, limit = k) with k >= 1 returns min(k, n)
\* of the user's n records, each once, and none of the records left out is
\* more recent than one returned; with limit None (or 0) it returns all n.
C21_LimitReturnsMostRecent ==
    [][\A p \in Callers :
          Answered(p, "transactions")
          => LET rows == res'[p].rows
                 k == req'[p].limit
                 mine == {i \in DOMAIN txs : txs[i].user_id = req'[p].user}
                 n == Cardinality(mine)
                 got == {rows[i] : i \in DOMAIN rows}
             IN /\ got \subseteq mine
                /\ Cardinality(got) = Len(rows)
                /\ Len(rows) = IF k >= 1 THEN Min(k, n) ELSE n
                /\ \A a \in got, b \in mine \ got :
                      txs[a].created_at >= txs[b].created_at]_vars

\* with two records of different times in the log, get_transactions with
\* limit 1 has returned the later one alone
C21_Witness ==
    \E p \in Callers :
        /\ Solo(p)
        /\ req[p].op = "transactions" /\ req[p].limit = 1
        /\ Len(txs) = 2
        /\ txs[2].created_at > txs[1].created_at
        /\ res[p].rows = <<2>>

\* ------------------------------------------------------------------ C22
\* C22: get_balances changes neither table, and what it returns has one
\* entry per wallet the user owns, the currency of the wallet mapped to its
\* balance (no entry at all for a user without wallets).
C22_GetBalancesReadOnly ==
    [][\A p \in Callers :
          Answered(p, "balances")
          => LET u == req'[p].user
                 owned == {i \in DOMAIN wallets : wallets[i].user_id = u}
                 b == res'[p].balances
             IN /\ wallets' = wallets
                /\ txs' = txs
                /\ res'[p].status = "ok"
                /\ Cardinality(DOMAIN b) = Cardinality(owned)
                /\ \A i \in owned :
                      /\ wallets[i].currency \in DOMAIN b
                      /\ b[wallets[i].currency] = wallets[i].balance]_vars

\* get_balances has returned the two wallets of a user, one of them funded
C22_Witness ==
    \E p \in Callers :
        /\ Solo(p)
        /\ req[p].op = "balances"
        /\ Len(wallets) = 2
        /\ DOMAIN res[p].balances = {"USD", "MXN"}
        /\ \E c \in Currencies : res[p].balances[c] > 0

\* ------------------------------------------------------------------ C23
\* C23: the wallet table never loses a row, and a row is added to it only
\* by a fund call or by a convert call getting its destination wallet.
C23_WalletsCreatedByFundOrConvertTarget ==
    [][/\ Len(wallets') >= Len(wallets)
       /\ Len(wallets') > Len(wallets)
          => \E p \in Callers :
                /\ pc[p] = "goc_create" /\ pc'[p] # pc[p]
                /\ \/ req[p].op = "fund"
                   \/ req[p].op = "convert" /\ loc[p].leg = "to"]_vars

\* ---------------------------------------------------------------- C24
\* a refresh of thread t ends without having set both rates
RefreshFails(t) ==
    /\ rpc[t] = "update_rates"
    /\ rpc'[t] = "idle"

\* C24: a refresh from the external feed that fails (request error, bad
\* status, missing key, a value that cannot be used such as 0) raises nothing
\* out of update_rates and leaves both held rates as they were before it.
C24_FailedRefreshKeepsRates ==
    [][\A t \in Threads :
          mode = "api" /\ RefreshFails(t) =>
              /\ usd_to_mxn' = usd_to_mxn
              /\ mxn_to_usd' = mxn_to_usd
              /\ lop'.status # "raised"]_vars

\* ---------------------------------------------------------------- C25
\* a pair of rates the holder has held as a whole under randomized rates:
\* the pair of the settings, or a listed rate with its inverse
WholePair(r) ==
    \/ r = [usd_to_mxn |-> DefaultUsdToMxn, mxn_to_usd |-> DefaultMxnToUsd]
    \/ /\ r.usd_to_mxn \in RandomValues
       /\ r.mxn_to_usd = InverseRate(r.usd_to_mxn)

\* C25: a reader that runs beside a refresh sees the old pair of rates or the
\* new pair, never the new USD->MXN rate with the old MXN->USD rate: what
\* get_rates returns is a pair the holder has held as a whole.
C25_ReaderSeesNoMix ==
    mode = "random" /\ lop = [op |-> "get_rates", status |-> "ok"] =>
        WholePair(seen)

\* ---------------------------------------------------------------- C26
\* C26: under static rates start_scheduler starts no background activity, and
\* whatever start_scheduler, update_rates and stop_scheduler calls were made,
\* both held rates are the configured rates of the startup.
C26_StaticNeverRefreshes ==
    mode = "static" =>
        /\ scheduler = "none"
        /\ rpc["job"] = "idle"
        /\ usd_to_mxn = DefaultUsdToMxn
        /\ mxn_to_usd = DefaultMxnToUsd

C26_Witness ==
    /\ mode = "static"
    /\ lop = [op |-> "start_scheduler", status |-> "ok"]
    /\ scheduler = "none"
    /\ usd_to_mxn = DefaultUsdToMxn

\* ---------------------------------------------------------------- C27
StartPending == lop = [op |-> "start_scheduler", status |-> "none"]
StartReturned == lop = [op |-> "start_scheduler", status |-> "ok"]
Refreshing(t) == rpc[t] \in {"update_rates", "inverse"}

\* C27: under rates that are not static, start_scheduler does one refresh at
\* once (it returns from inside that refresh, and it does return), and from
\* then on, as long as the scheduler has not been stopped, the job's refresh
\* runs again and again: an idle worker under a running scheduler is given
\* the next refresh, and every refresh of the worker comes to its end.
C27_RefreshesUntilStopped ==
    /\ [][~Static /\ StartPending /\ StartReturned' =>
             Refreshing("loop") /\ ~Refreshing("loop")']_vars
    /\ (~Static /\ StartPending) ~> StartReturned
    /\ (~Static /\ SchedulerRunning /\ ~Refreshing("job")) ~>
           (Refreshing("job") \/ ~SchedulerRunning)
    /\ Refreshing("job") ~> ~Refreshing("job")

C27_Witness ==
    /\ mode = "random"
    /\ StartReturned
    /\ SchedulerRunning
    /\ rpc["job"] = "inverse"
    /\ usd_to_mxn = upd["job"]

\* ---------------------------------------------------------------- C28
\* no scheduler runs and no stop_scheduler call is still inside shutdown()
Stopped == ~SchedulerRunning /\ rpc["loop"] # "shutdown"

\* C28: stop_scheduler never raises, whether the scheduler runs, was never
\* started or is already stopped; once it has returned no scheduled refresh
\* runs (the worker is idle), and the held rates stay as they are (only a
\* refresh the caller itself asks for changes them).
C28_StopIsClean ==
    /\ [](lop.status # "raised")
    /\ [](Stopped => ~Refreshing("job"))
    /\ [][Stopped /\ ~Refreshing("loop") =>
             usd_to_mxn' = usd_to_mxn /\ mxn_to_usd' = mxn_to_usd]_vars

C28_Witness ==
    /\ lop = [op |-> "stop_scheduler", status |-> "ok"]
    /\ scheduler = "stopped"
    /\ Stopped
    /\ usd_to_mxn \in RandomValues
    /\ mxn_to_usd = InverseRate(usd_to_mxn)

\* ---------------------------------------------------------------- C29
\* thread t completes a refresh: it has set both rates
RefreshCompletes(t) ==
    /\ rpc[t] = "inverse"
    /\ rpc'[t] = "idle"

\* C29: under randomized rates, when a refresh has completed the held
\* USD->MXN rate is one of the listed values and the held MXN->USD rate is
\* its inverse rounded to 4 digits.
C29_RandomRefreshResult ==
    [][\A t \in Threads :
          mode = "random" /\ RefreshCompletes(t) =>
              /\ usd_to_mxn' \in RandomValues
              /\ mxn_to_usd' = InverseRate(usd_to_mxn')]_vars

\* ---------------------------------------------------------------- C30
\* the thread that serves requests is inside no call of its own making other
\* than start_scheduler (a refresh it asked for, a read, a stop)
NotBusyElsewhere == lop.status = "none" => lop.op = "start_scheduler"

\* C30: a refresh never blocks or delays request handling: while a refresh is
\* in flight, the immediate one of start_scheduler included, a rate read can
\* begin on the thread that serves requests.
C30_RefreshNeverBlocksReads ==
    (\E t \in Threads : Refreshing(t)) /\ NotBusyElsewhere =>
        ENABLED get_rates

\* ---------------------------------------------------------------- C31
\* the rows of table ws that belong to user u, each with its id
Owned(ws, u) == {<<i, ws[i]>> : i \in {j \in DOMAIN ws : ws[j].user_id = u}}

\* C31: operations are isolated per user: a wallet or a transaction of user
\* u is created or changed only by a step of a call made for u (nothing ever
\* removes one), and the queries for u return u's wallets and u's
\* transactions only.
C31_UsersIsolated ==
    [][\A u \in TwoUsers :
          /\ Owned(wallets', u) # Owned(wallets, u)
                \/ Owned(txs', u) # Owned(txs, u) =>
                /\ Owned(wallets, u) \subseteq Owned(wallets', u)
                      \/ Cardinality(Owned(wallets', u)) =
                            Cardinality(Owned(wallets, u))
                /\ Owned(txs, u) \subseteq Owned(txs', u)
                /\ \E p \in Callers :
                      /\ Running(p)
                      /\ req[p].user = u
                      /\ pc'[p] # pc[p]
          /\ \A p \in Callers :
                Answered(p, "balances") /\ req'[p].user = u =>
                    \A c \in DOMAIN res'[p].balances :
                       \E w \in Owned(wallets, u) :
                          /\ w[2].currency = c
                          /\ w[2].balance = res'[p].balances[c]
          /\ \A p \in Callers :
                Answered(p, "transactions") /\ req'[p].user = u =>
                    {res'[p].rows[k] : k \in DOMAIN res'[p].rows} =
                        {t[1] : t \in Owned(txs, u)}]_vars

C31_Witness ==
    \E p \in Callers :
       /\ Done(p)
       /\ req[p].op = "transactions"
       /\ req[p].user = 2
       /\ res[p].rows = <<2>>
       /\ Len(txs) = 2
       /\ txs[1].user_id = 1
       /\ txs[2].user_id = 2
       /\ Cardinality(Owned(wallets, 1)) = 1
       /\ Cardinality(Owned(wallets, 2)) = 1

\* ---------------------------------------------------------------- C32
\* caller p's get_or_create runs its SELECT for a pair that has a wallet
GetsExisting(p) ==
    /\ pc[p] = "goc_select"
    /\ pc'[p] # pc[p]
    /\ RowsOf(wallets, req[p].user, LegCurrency(p)) # {}

\* C32: get_or_create for a (user, currency) that already has a wallet
\* returns that wallet, with its identity and its balance as stored, and adds
\* no wallet to the store and changes none.
C32_GetOrCreateIdempotent ==
    [][\A p \in Callers :
          GetsExisting(p) =>
              /\ wallets' = wallets
              /\ pc'[p] = AfterGetOrCreate(p)
              /\ loc'[p].wid \in RowsOf(wallets, req[p].user, LegCurrency(p))
              /\ loc'[p].bal = wallets[loc'[p].wid].balance]_vars

\* the second fund of a wallet that the first fund created
C32_Witness ==
    \E p \in Callers :
       /\ seed = <<>>
       /\ alone[p]
       /\ calls = 2
       /\ pc[p] = "fund_update"
       /\ Len(wallets) = 1
       /\ Len(txs) = 1
       /\ loc[p].wid = 1
       /\ loc[p].bal = 100

\* ---------------------------------------------------------------- C33
\* C33: the identities of the transactions follow their creation order: of
\* two transactions in the log, those of overlapping calls included, the one
\* with the later creation time has the larger identity.
C33_IdentityFollowsCreationTime ==
    \A a, b \in DOMAIN txs :
       txs[a].created_at > txs[b].created_at => a > b

\* ---------------------------------------------------------------- C34
\* C34: from an empty store, in every quiescent state reached by any
\* interleaving of fund, withdraw and convert calls, the balance of each
\* wallet is the net of its user's records for its currency.  It is stated for
\* the runs in which no call was cut short by the store: every call has
\* recorded its transaction.
C34_BalanceIsNetOfLog ==
    seed = <<>> /\ Quiescent /\ Len(txs) = calls =>
        \A i \in DOMAIN wallets :
           wallets[i].balance = Net(wallets[i].user_id, wallets[i].currency)

\* ---------------------------------------------------------------- C35
\* C35: no double spend: whatever the interleaving, what the log records as
\* taken out of a wallet (withdraw amounts, convert from_amounts) never
\* exceeds what it had at the start plus what the log records as put into it
\* (fund amounts, convert to_amounts); two overlapping withdrawals that each
\* fit the balance and together exceed it cannot both succeed.  It is stated
\* for the quiescent states in which every call has recorded its transaction.
C35_NoDoubleSpend ==
    Quiescent /\ Len(txs) = calls =>
        \A u \in Users, c \in Currencies :
           Net(u, c) + BalanceIn(seed, u, c) >= 0

\* ---------------------------------------------------------------- C36
\* the convert of caller q has debited the source wallet and has not yet
\* credited the destination wallet
MidConvert(q) ==
    /\ req[q].op = "convert"
    /\ loc[q].leg = "to"
    /\ pc[q] \in {"goc_select", "goc_create", "goc_refresh", "convert_credit"}

\* the balances answered to p for the two wallets of q's convert (which began
\* with no other call running) are the source balance less the amount and
\* the destination balance of before the convert
SeesMidConvert(p, q) ==
    LET b == res'[p].balances
        Bal(c) == IF c \in DOMAIN b THEN b[c] ELSE 0
        was == pre[q].wallets
    IN /\ alone[q]
       /\ Bal(req[q].cur) = BalanceIn(was, req[q].user, req[q].cur) - req[q].amount
       /\ Bal(req[q].to) = BalanceIn(was, req[q].user, req[q].to)

\* C36: a balance read that runs beside a convert never observes the
\* intermediate state: get_balances never returns the source balance already
\* reduced by the convert with the destination balance not yet credited.
C36_ReadNeverSeesMidConvert ==
    [][\A p, q \in Callers :
          /\ p # q
          /\ Answered(p, "balances")
          /\ req'[p].user = req[q].user
          /\ MidConvert(q)
          => ~SeesMidConvert(p, q)]_vars

\* ---------------------------------------------------------------- C37
\* caller p's convert returns normally
ConvertReturns(p) ==
    /\ req[p].op = "convert"
    /\ pc[p] = "convert_tx"
    /\ res'[p].status = "ok"

\* C37: for every successful convert the to_amount returned to the caller,
\* the amount by which the stored balance of the destination wallet went up
\* (for a convert that ran alone) and the to_amount of the stored record are
\* the same value of 2 fractional digits.
C37_ToAmountReturnedIsStored ==
    [][\A p \in Callers :
          ConvertReturns(p) =>
              LET stored == txs'[Len(txs')].to_amount
                  u == req[p].user
                  t == req[p].to
              IN /\ res'[p].to_amount = Fine(stored)
                 /\ alone[p] =>
                       BalanceIn(wallets', u, t)
                          - BalanceIn(pre[p].wallets, u, t) = stored]_vars

\* ---------------------------------------------------------------- C38
\* thread t leaves update_rates having changed a held rate, and no refresh
\* is in flight afterwards
RefreshEndsAtRest(t) ==
    /\ Refreshing(t)
    /\ \A o \in Threads : ~Refreshing(o)'
    /\ <<usd_to_mxn, mxn_to_usd>>' # <<usd_to_mxn, mxn_to_usd>>

\* C38: under rates that are not static, in every state with no refresh in
\* flight and a refresh attempted, the held rates are consistent with each
\* other (MXN->USD is the inverse of USD->MXN rounded to 4 digits), and a
\* refresh that ends in an error never leaves USD->MXN updated beside the old
\* MXN->USD.  The rates change in refreshes only, so it is stated on the step
\* that ends an attempt, and for the attempts that change a rate (the two
\* rates of the settings, which a failed first attempt keeps, are configured
\* each on its own).
C38_RatesConsistentAtRest ==
    [][\A t \in Threads :
          /\ ~Static /\ RefreshEndsAtRest(t) =>
                /\ usd_to_mxn' > 0
                /\ mxn_to_usd' = InverseRate(usd_to_mxn')
          /\ RefreshFails(t) =>
                ~(usd_to_mxn' # usd_to_mxn /\ mxn_to_usd' = mxn_to_usd)]_vars

\* ---------------------------------------------------------------- C39
\* the event loop calls start_scheduler
StartCalled ==
    /\ rpc["loop"] = "idle"
    /\ lop'.op = "start_scheduler"
    /\ lop' # lop

\* C39: at most one refresh job is scheduled at any time: start_scheduler
\* called while the scheduler runs changes nothing: the scheduler stays the
\* one it was with its one job, no thread is put into a refresh and the held
\* rates are not touched; the call only logs its warning and returns.
C39_StartWhileRunningChangesNothing ==
    [][scheduler = "running" /\ StartCalled =>
          /\ lop'.status = "warned"
          /\ UNCHANGED <<scheduler, rpc, upd, usd_to_mxn, mxn_to_usd>>]_vars

C39_Witness ==
    /\ lop = [op |-> "start_scheduler", status |-> "warned"]
    /\ scheduler = "running"
    /\ ~Refreshing("loop")

====
